---------------------------- MODULE Spec2Model ----------------------------
(***************************************************************************)
(* Chronoface frontend: calendar bucketing of accepted faces (Configure,   *)
(* Arrange), the collage layout solver (Collage), the wizard's run store,  *)
(* Scan's upload and the toast queue.                                      *)
(*                                                                         *)
(* Strings are sequences of one-character strings, so that formatting      *)
(* (template literals, padStart) and parsing (split, Number, parseInt) are *)
(* modelled by what they do.  A Date is its getTime() value in ticks of    *)
(* local time (TicksPerDay ticks per calendar day, tick 0 of a day is      *)
(* local midnight); NaN is the time value of an Invalid Date.              *)
(***************************************************************************)
EXTENDS Integers, Sequences, FiniteSets, TLC

VARIABLES
    faces,        \* FacesResponse.faces: the face list the server returns
    bucketType,   \* Configure: selectedBucket / Arrange: selectedBucketType
    pc,           \* position of the bucketing computation
    coverage,     \* Configure: bucketCoverage, or the exception it raised
    arranged,     \* Arrange: bucketsWithFaces
    numFaces,     \* Collage: numAcceptedFaces, the number of faces to place
    paperWidth,   \* Collage: the canvas of the output format
    paperHeight,
    layoutPc,     \* position of the layout computation
    layout,       \* Collage: the memoised { columns, tileSize, paddingX, paddingY, margin }
    currentStep,          \* store: the wizard step shown (App routes on it)
    runId,                \* store: TRUE when a run id is set, FALSE for null
    phase,                \* store: the pipeline phase of the last status event
    selectedIds,          \* Review: the local selection (useState)
    selectedFaceIds,      \* store: the selection saved by Review
    selectedBucket,       \* Configure: the local granularity choice (useState)
    selectedBucketType,   \* store: the granularity saved by Configure, "none" for null
    bucketFaceSelections, \* store: bucket key -> chosen face id
    scanTimers,           \* pending "advance to review" callbacks of Scan
    reviewTimers,         \* pending "advance to configure" callbacks of Review
    progress,             \* store: { processed, total, message } of the last status event
    storeBuckets,         \* store: buckets, the bucket summaries of the run
    currentBucket,        \* store: the key of the bucket shown, Null for null
    facesByBucket,        \* store: bucket key -> faces
    skipped,              \* store: the files the scan skipped
    toasts,               \* store: the toast queue
    isStarting,           \* Scan: an upload is shown as running (useState)
    uploads               \* Scan: the calls of handleStartScan that sent a request

bucketVars == <<faces, bucketType, pc, coverage, arranged>>
layoutVars == <<numFaces, paperWidth, paperHeight, layoutPc, layout>>
storeVars == <<progress, storeBuckets, currentBucket, facesByBucket, skipped, toasts>>
scanVars == <<isStarting, uploads>>
wizardVars == <<currentStep, runId, phase, selectedIds, selectedFaceIds, selectedBucket,
                selectedBucketType, bucketFaceSelections, scanTimers, reviewTimers,
                storeVars, scanVars>>
vars == <<bucketVars, layoutVars, wizardVars>>

\* What no action of the wizard's steps touches.  The toasts its handlers
\* push are left out of these actions; the queue is modelled with Scan's
\* upload below.
eventFrame == <<bucketType, pc, coverage, arranged, layoutVars, storeBuckets, currentBucket,
                facesByBucket, skipped, toasts, scanVars>>
wizardFrame == <<eventFrame, progress>>

-----------------------------------------------------------------------------
(* Bounds of the model *)

\* Number of faces in a face list.
MaxFaces == 3

\* Resolution of time: ticks per calendar day (tick 0 is local midnight).
TicksPerDay == 2

\* Largest number of faces handed to the layout solver.
MaxItems == 240

\* Largest number of pending auto-advance callbacks of one kind.
MaxTimers == 1

\* Number of files of a run: the total of its status events.
MaxProcessed == 1

\* Largest number of uploads the user starts.
MaxUploads == 2

\* Largest length of the toast queue.
MaxToasts == 2

-----------------------------------------------------------------------------
(* Numbers and strings *)

\* The not-a-number value (all other numbers of the model are >= 0).
NaN == 0 - 1

Min(S) == CHOOSE x \in S : \A y \in S : x <= y
Max(S) == CHOOSE x \in S : \A y \in S : x >= y

\* Variant rounding down
FloorDiv(a, b) == a \div b

\* Math.ceil(a / b) for integers a >= 0, b > 0
CeilDiv(a, b) == (a + b - 1) \div b

DigitChars == <<"0", "1", "2", "3", "4", "5", "6", "7", "8", "9">>

RECURSIVE Digits(_)
Digits(n) ==
    IF n < 10 THEN <<DigitChars[n + 1]>>
    ELSE Digits(n \div 10) \o <<DigitChars[(n % 10) + 1]>>

\* String(n) / `${n}`
Str(n) == IF n = NaN THEN <<"N", "a", "N">> ELSE Digits(n)

\* Variant without the padding
NoPadStart(s) == s

\* s.padStart(2, "0")
PadStart2(s) ==
    IF Len(s) >= 2 THEN s
    ELSE IF Len(s) = 1 THEN <<"0">> \o s
    ELSE <<"0", "0">>

DigitValue(c) == CHOOSE d \in 0..9 : DigitChars[d + 1] = c

IsDigits(s) == Len(s) > 0 /\ \A i \in 1..Len(s) : \E d \in 1..10 : DigitChars[d] = s[i]

RECURSIVE DigitsValue(_)
DigitsValue(s) ==
    IF Len(s) = 0 THEN 0
    ELSE 10 * DigitsValue(SubSeq(s, 1, Len(s) - 1)) + DigitValue(s[Len(s)])

\* Number(s) and parseInt(s) on the strings the key formats produce
ToNumber(s) == IF IsDigits(s) THEN DigitsValue(s) ELSE NaN

\* s.split(sep)
RECURSIVE Split(_, _)
Split(s, sep) ==
    LET n == Len(sep)
        hits == {i \in 1..(Len(s) - n + 1) : SubSeq(s, i, i + n - 1) = sep}
    IN  IF hits = {} THEN <<s>>
        ELSE LET i == Min(hits)
             IN  <<SubSeq(s, 1, i - 1)>> \o Split(SubSeq(s, i + n, Len(s)), sep)

-----------------------------------------------------------------------------
(* The calendar behind Date: the years 2023..2025 of the Gregorian         *)
(* calendar; day 0 is Sunday 2023-01-01.                                   *)

Years == 2023..2025

IsLeap(y) == y % 4 = 0 /\ (y % 100 # 0 \/ y % 400 = 0)

DaysInMonth(y, m) ==
    IF m = 2 THEN (IF IsLeap(y) THEN 29 ELSE 28)
    ELSE IF m \in {4, 6, 9, 11} THEN 30 ELSE 31

RECURSIVE MonthStart(_, _)
MonthStart(y, m) == IF m = 1 THEN 0 ELSE MonthStart(y, m - 1) + DaysInMonth(y, m - 1)

DaysInYear(y) == MonthStart(y, 12) + DaysInMonth(y, 12)

RECURSIVE YearStart(_)
YearStart(y) == IF y = 2023 THEN 0 ELSE YearStart(y - 1) + DaysInYear(y - 1)

\* Day number of the calendar date y-m-d
DayNumber(y, m, d) == YearStart(y) + MonthStart(y, m) + (d - 1)

LastDay == YearStart(2026) - 1

\* The year, the month and the day of the month of day number n
YearOf(n) == CHOOSE yy \in Years : YearStart(yy) <= n /\ n < YearStart(yy + 1)

MonthOf(y, r) == CHOOSE mm \in 1..12 : MonthStart(y, mm) <= r /\ r < MonthStart(y, mm + 1)

CivilInMonth(y, m, r) == [year |-> y, month |-> m, date |-> r - MonthStart(y, m) + 1]

CivilInYear(y, r) == CivilInMonth(y, MonthOf(y, r), r)

CivilAt(y, n) == CivilInYear(y, n - YearStart(y))

CivilOf(n) == CivilAt(YearOf(n), n)

\* The civil date of every day number, computed once.
Civil == [n \in 0..LastDay |-> CivilOf(n)]

\* new Date(timestamp): the time value of the parsed string.  A timestamp
\* string is modelled by the instant it denotes, NaN when it is missing or
\* unparsable.
NewDate(timestamp) == timestamp

\* new Date(year, monthIndex, day): local midnight of that date
NewDateYMD(year, monthIndex, day) == DayNumber(year, monthIndex + 1, day) * TicksPerDay

IsValidDate(date) == date # NaN

GetFullYear(date) == IF IsValidDate(date) THEN Civil[date \div TicksPerDay].year ELSE NaN
\* getMonth() is 0-indexed
GetMonth(date) == IF IsValidDate(date) THEN Civil[date \div TicksPerDay].month - 1 ELSE NaN
GetDate(date) == IF IsValidDate(date) THEN Civil[date \div TicksPerDay].date ELSE NaN
\* getDay(): 0 is Sunday
GetDay(date) == IF IsValidDate(date) THEN (date \div TicksPerDay) % 7 ELSE NaN

\* date.toISOString(): a string that parses back to the same instant; a
\* RangeError on an Invalid Date.
ToISOStringThrows(date) == ~IsValidDate(date)
ToISOString(date) == date

\* An instant given by its calendar date and tick of the day
At(y, m, d, tick) == DayNumber(y, m, d) * TicksPerDay + tick

-----------------------------------------------------------------------------
(* Configure.tsx / Arrange.tsx: getBucketKey and getBucketLabel *)

BucketSizes == {"day", "week", "month", "year"}

\* Math.ceil((pastDaysOfYear + firstDayOfYear.getDay() + 1) / 7) with
\* pastDaysOfYear = (date.getTime() - firstDayOfYear.getTime()) / 86400000,
\* a fraction when the time of day is not midnight.
WeekNumber(date) ==
    LET year == GetFullYear(date)
        firstDayOfYear == NewDateYMD(year, 0, 1)
        pastTicks == date - firstDayOfYear
    IN  CeilDiv(pastTicks + (GetDay(firstDayOfYear) + 1) * TicksPerDay, 7 * TicksPerDay)

getBucketKey(timestamp, type) ==
    LET date == NewDate(timestamp)
        year == GetFullYear(date)
        month == IF IsValidDate(date) THEN GetMonth(date) + 1 ELSE NaN
        day == GetDate(date)
    IN  IF type = "year" THEN Str(year)
        ELSE IF type = "month" THEN Str(year) \o <<"-">> \o PadStart2(Str(month))
        ELSE IF type = "week" THEN
            LET week == IF IsValidDate(date) THEN WeekNumber(date) ELSE NaN
            IN  Str(year) \o <<"-", "W">> \o PadStart2(Str(week))
        ELSE IF type = "day" THEN
            Str(year) \o <<"-">> \o PadStart2(Str(month)) \o <<"-">> \o PadStart2(Str(day))
        ELSE <<>>

MonthLong == <<"January", "February", "March", "April", "May", "June", "July",
               "August", "September", "October", "November", "December">>
MonthShort == <<"Jan", "Feb", "Mar", "Apr", "May", "Jun", "Jul",
                "Aug", "Sep", "Oct", "Nov", "Dec">>

\* toLocaleDateString("en-US", ...) of a month or a day; "Invalid Date" when
\* a part of the key is not a number.
getBucketLabel(key, type) ==
    IF type = "year" THEN key
    ELSE IF type = "month" THEN
        LET parts == Split(key, <<"-">>)
            year == ToNumber(parts[1])
            month == IF Len(parts) >= 2 THEN ToNumber(parts[2]) ELSE NaN
        IN  IF year = NaN \/ month = NaN THEN <<"Invalid Date">>
            ELSE <<MonthLong[month], " ">> \o Str(year)
    ELSE IF type = "week" THEN
        LET parts == Split(key, <<"-", "W">>)
        IN  <<"Week ">> \o (IF Len(parts) >= 2 THEN parts[2] ELSE <<"undefined">>)
                \o <<", ">> \o parts[1]
    ELSE IF type = "day" THEN
        LET parts == Split(key, <<"-">>)
            year == ToNumber(parts[1])
            month == IF Len(parts) >= 2 THEN ToNumber(parts[2]) ELSE NaN
            day == IF Len(parts) >= 3 THEN ToNumber(parts[3]) ELSE NaN
        IN  IF year = NaN \/ month = NaN \/ day = NaN THEN <<"Invalid Date">>
            ELSE <<MonthShort[month], " ">> \o Str(day) \o <<", ">> \o Str(year)
    ELSE key


-----------------------------------------------------------------------------
(* Configure.tsx: bucketCoverage *)

\* Variant without the filter
EveryFace(fs) == fs

\* faces.filter(f => f.accepted)
AcceptedFaces(fs) == SelectSeq(fs, LAMBDA f : f.accepted)

\* facesByBucket: Map<string, number> after the forEach over acceptedFaces
FacesByBucket(acc, type) ==
    LET keyOf(i) == getBucketKey(acc[i].photo_timestamp, type)
    IN  [k \in {keyOf(i) : i \in DOMAIN acc} |->
            Cardinality({i \in DOMAIN acc : keyOf(i) = k})]

\* allTimestamps before the sort
AllTimestamps(acc) == [i \in DOMAIN acc |-> NewDate(acc[i].photo_timestamp)]

RemoveAt(s, i) == SubSeq(s, 1, i - 1) \o SubSeq(s, i + 1, Len(s))

RECURSIVE SortAscending(_)
SortAscending(s) ==
    IF Len(s) = 0 THEN <<>>
    ELSE LET m == Min({s[i] : i \in DOMAIN s})
             i == Min({j \in DOMAIN s : s[j] = m})
         IN  <<m>> \o SortAscending(RemoveAt(s, i))

\* allTimestamps.sort((a, b) => a.getTime() - b.getTime()).  The comparator
\* returns NaN as soon as one date is invalid, so it is not a consistent
\* comparator and the resulting order is implementation-defined: any
\* permutation of the list.
SortOutcomes(s) ==
    IF \A i \in DOMAIN s : IsValidDate(s[i]) THEN {SortAscending(s)}
    ELSE {[i \in DOMAIN s |-> s[p[i]]] : p \in Permutations(DOMAIN s)}

\* parseKey
parseKey(key, type) ==
    IF type = "year" THEN [year |-> ToNumber(key), week |-> 0, month |-> 1, day |-> 1]
    ELSE IF type = "month" THEN
        LET parts == Split(key, <<"-">>)
        IN  [year |-> ToNumber(parts[1]), week |-> 0, month |-> ToNumber(parts[2]), day |-> 1]
    ELSE IF type = "week" THEN
        LET parts == Split(key, <<"-", "W">>)
        IN  [year |-> ToNumber(parts[1]), week |-> ToNumber(parts[2]), month |-> 0, day |-> 0]
    ELSE IF type = "day" THEN
        LET parts == Split(key, <<"-">>)
        IN  [year |-> ToNumber(parts[1]), week |-> 0, month |-> ToNumber(parts[2]),
             day |-> ToNumber(parts[3])]
    ELSE [year |-> 0, week |-> 0, month |-> 1, day |-> 1]

\* Variant: a bucket has a face only when it holds exactly one
RangeEntryHasFaceOnce(key, type, byBucket) ==
    [key |-> key,
     label |-> getBucketLabel(key, type),
     hasFace |-> key \in DOMAIN byBucket /\ byBucket[key] = 1,
     faceCount |-> IF key \in DOMAIN byBucket THEN byBucket[key] ELSE 0]

\* One entry of allBucketsInRange
RangeEntry(key, type, byBucket) ==
    [key |-> key,
     label |-> getBucketLabel(key, type),
     hasFace |-> key \in DOMAIN byBucket,
     faceCount |-> IF key \in DOMAIN byBucket THEN byBucket[key] ELSE 0]

\* for (let year = first.year; year <= last.year; year++)
YearRange(first, last) ==
    [i \in 1..(last.year - first.year + 1) |-> Str(first.year + i - 1)]

\* The months of one year of the range
MonthsOfYear(year, first, last) ==
    LET startMonth == IF year = first.year THEN first.month ELSE 1
        endMonth == IF year = last.year THEN last.month ELSE 12
    IN  [i \in 1..(endMonth - startMonth + 1) |->
            Str(year) \o <<"-">> \o PadStart2(Str(startMonth + i - 1))]

RECURSIVE MonthRangeFrom(_, _, _)
MonthRangeFrom(year, first, last) ==
    IF year > last.year THEN <<>>
    ELSE MonthsOfYear(year, first, last) \o MonthRangeFrom(year + 1, first, last)

MonthRange(first, last) == MonthRangeFrom(first.year, first, last)

\* Weeks after which the week loop moves to week 1 of the next year
WeeksPerYear == 52

\* The week counter after currentWeek++ and the roll-over test
NextWeek(currentYear, currentWeek) ==
    IF currentWeek + 1 > WeeksPerYear
    THEN [year |-> currentYear + 1, week |-> 1]
    ELSE [year |-> currentYear, week |-> currentWeek + 1]

\* while (currentYear < lastYear || (currentYear === lastYear && currentWeek <= lastWeekNum))
RECURSIVE WeekRangeFrom(_, _, _, _)
WeekRangeFrom(currentYear, currentWeek, lastYear, lastWeekNum) ==
    IF currentYear < lastYear \/ (currentYear = lastYear /\ currentWeek <= lastWeekNum)
    THEN LET next == NextWeek(currentYear, currentWeek)
         IN  <<Str(currentYear) \o <<"-", "W">> \o PadStart2(Str(currentWeek))>>
                \o WeekRangeFrom(next.year, next.week, lastYear, lastWeekNum)
    ELSE <<>>

WeekRange(firstKey, lastKey) ==
    LET f == Split(firstKey, <<"-", "W">>)
        l == Split(lastKey, <<"-", "W">>)
    IN  WeekRangeFrom(ToNumber(f[1]), ToNumber(f[2]), ToNumber(l[1]), ToNumber(l[2]))

\* while (currentDate <= lastDate) { ...; currentDate.setDate(currentDate.getDate() + 1) }
DayRange(first, last) ==
    LET firstDate == NewDateYMD(first.year, first.month - 1, first.day)
        lastDate == NewDateYMD(last.year, last.month - 1, last.day)
        n == (lastDate - firstDate) \div TicksPerDay + 1
    IN  [i \in 1..n |->
            LET currentDate == firstDate + (i - 1) * TicksPerDay
            IN  Str(GetFullYear(currentDate)) \o <<"-">>
                    \o PadStart2(Str(GetMonth(currentDate) + 1)) \o <<"-">>
                    \o PadStart2(Str(GetDate(currentDate)))]

\* The keys of allBucketsInRange, from the first and the last key
RangeKeys(firstKey, lastKey, type) ==
    LET first == parseKey(firstKey, type)
        last == parseKey(lastKey, type)
    IN  IF type = "year" THEN YearRange(first, last)
        ELSE IF type = "month" THEN MonthRange(first, last)
        ELSE IF type = "week" THEN WeekRange(firstKey, lastKey)
        ELSE IF type = "day" THEN DayRange(first, last)
        ELSE <<>>

\* bucketCoverage, given the order the sort left allTimestamps in: the
\* list allBucketsInRange, or the RangeError of toISOString.
bucketCoverage(fs, size, sorted) ==
    LET acc == AcceptedFaces(fs) IN
    IF size = "all" \/ Len(acc) = 0
    THEN [threw |-> FALSE, buckets |-> <<>>]
    ELSE
        LET byBucket == FacesByBucket(acc, size)
            firstTimestamp == sorted[1]
            lastTimestamp == sorted[Len(sorted)]
        IN  IF ToISOStringThrows(firstTimestamp) \/ ToISOStringThrows(lastTimestamp)
            THEN [threw |-> TRUE, buckets |-> <<>>]
            ELSE
                LET firstKey == getBucketKey(ToISOString(firstTimestamp), size)
                    lastKey == getBucketKey(ToISOString(lastTimestamp), size)
                    keys == RangeKeys(firstKey, lastKey, size)
                IN  [threw |-> FALSE,
                     buckets |-> [i \in DOMAIN keys |->
                                    RangeEntry(keys[i], size, byBucket)]]


-----------------------------------------------------------------------------
(* Configure.tsx: getCoverageInfo *)

\* Variant: labels.join(" ")
RECURSIVE JoinWithSpaces(_)
JoinWithSpaces(labels) ==
    IF Len(labels) = 0 THEN <<>>
    ELSE IF Len(labels) = 1 THEN labels[1]
    ELSE labels[1] \o <<" ">> \o JoinWithSpaces(Tail(labels))

\* labels.join(", ")
RECURSIVE Join(_)
Join(labels) ==
    IF Len(labels) = 0 THEN <<>>
    ELSE IF Len(labels) = 1 THEN labels[1]
    ELSE labels[1] \o <<", ">> \o Join(Tail(labels))

\* `${n} thing${n !== 1 ? 's' : ''}`
Plural(n, word) == Str(n) \o <<" ", word>> \o (IF n # 1 THEN <<"s">> ELSE <<>>)

\* The absent date range (null)
Null == <<>>

getCoverageInfo(fs, size, buckets) ==
    IF size = "all" THEN
        LET acceptedCount == Len(AcceptedFaces(fs))
        IN  [total |-> acceptedCount,
             covered |-> acceptedCount,
             missing |-> 0,
             duplicates |-> 0,
             missingBuckets |-> <<>>,
             message |-> <<"All ">> \o Str(acceptedCount) \o <<" selected face">>
                            \o (IF acceptedCount # 1 THEN <<"s">> ELSE <<>>)
                            \o <<" will be included">>,
             dateRange |-> Null]
    ELSE
        LET totalBuckets == Len(buckets)
            coveredBuckets == Len(SelectSeq(buckets, LAMBDA b : b.hasFace))
            missingBuckets == SelectSeq(buckets, LAMBDA b : ~b.hasFace)
            duplicateBuckets == Len(SelectSeq(buckets, LAMBDA b : b.faceCount > 1))
            bucketLabels == [i \in 1..(IF Len(missingBuckets) < 3 THEN Len(missingBuckets) ELSE 3)
                                |-> missingBuckets[i].label]
            message ==
                IF Len(missingBuckets) = 0
                THEN <<"Perfect coverage! All ">> \o Plural(totalBuckets, size)
                        \o <<" have faces">>
                ELSE IF Len(missingBuckets) <= 3
                THEN <<"Missing: ">> \o Join(bucketLabels)
                ELSE <<"Missing: ">> \o Join(bucketLabels) \o <<" and ">>
                        \o Str(Len(missingBuckets) - 3) \o <<" more">>
            dateRange ==
                IF Len(buckets) > 0
                THEN buckets[1].label \o <<" - ">> \o buckets[Len(buckets)].label
                ELSE Null
        IN  [total |-> totalBuckets,
             covered |-> coveredBuckets,
             missing |-> Len(missingBuckets),
             duplicates |-> duplicateBuckets,
             missingBuckets |-> missingBuckets,
             message |-> message,
             dateRange |-> dateRange]

-----------------------------------------------------------------------------
(* Arrange.tsx: bucketsWithFaces *)

\* Collation order of the characters of a key (String.prototype.localeCompare)
Collation == <<"-", "0", "1", "2", "3", "4", "5", "6", "7", "8", "9", "a", "N", "W">>

Rank(c) == CHOOSE r \in DOMAIN Collation : Collation[r] = c

\* a.localeCompare(b) < 0
RECURSIVE KeyLess(_, _)
KeyLess(a, b) ==
    IF Len(b) = 0 THEN FALSE
    ELSE IF Len(a) = 0 THEN TRUE
    ELSE IF a[1] # b[1] THEN Rank(a[1]) < Rank(b[1])
    ELSE KeyLess(Tail(a), Tail(b))

\* The keys of a Map whose keys are all distinct, sorted by localeCompare
RECURSIVE SortKeys(_)
SortKeys(K) ==
    IF K = {} THEN <<>>
    ELSE LET k == CHOOSE x \in K : \A y \in K \ {x} : KeyLess(x, y)
         IN  <<k>> \o SortKeys(K \ {k})

\* Variant without the sort
InputOrder(fs) == fs

\* faces.sort((a, b) => b.score - a.score): a stable sort, highest score first
RECURSIVE SortByScore(_)
SortByScore(fs) ==
    IF Len(fs) = 0 THEN <<>>
    ELSE LET top == Max({fs[i].score : i \in DOMAIN fs})
             i == Min({j \in DOMAIN fs : fs[j].score = top})
         IN  <<fs[i]>> \o SortByScore(RemoveAt(fs, i))

\* The value bucketMap holds for a key: the faces of the bucket, in input order
BucketMapEntry(acc, type, key) ==
    LET members == SelectSeq(acc, LAMBDA f : getBucketKey(f.photo_timestamp, type) = key)
    IN  [i \in DOMAIN members |->
            [face_id |-> members[i].face_id, score |-> members[i].score]]

\* Variant that ignores the stored selection
SelectedFaceIdDefault(selections, key, sortedFaces) == sortedFaces[1].face_id

\* bucketFaceSelections[key] || faces[0].face_id
SelectedFaceId(selections, key, sortedFaces) ==
    IF key \in DOMAIN selections THEN selections[key] ELSE sortedFaces[1].face_id

bucketsWithFaces(fs, type, selections) ==
    LET acc == AcceptedFaces(fs) IN
    IF type = "none" \/ type = "all" \/ Len(acc) = 0
    THEN <<>>
    ELSE
        LET keys == SortKeys({getBucketKey(acc[i].photo_timestamp, type)
                                : i \in DOMAIN acc})
        IN  [n \in DOMAIN keys |->
                LET sortedFaces == SortByScore(BucketMapEntry(acc, type, keys[n]))
                IN  [key |-> keys[n],
                     label |-> getBucketLabel(keys[n], type),
                     faces |-> sortedFaces,
                     selectedFaceId |-> SelectedFaceId(selections, keys[n], sortedFaces)]]

\* bucketsWithFaces.filter(b => b.faces.length > 1)
bucketsWithMultipleFaces(bs) == SelectSeq(bs, LAMBDA b : Len(b.faces) > 1)
bucketsWithSingleFace(bs) == SelectSeq(bs, LAMBDA b : Len(b.faces) = 1)


-----------------------------------------------------------------------------
(* The bucketing functions applied to a face list: the face list and the   *)
(* granularity are the inputs, Configure renders first (bucketCoverage and *)
(* getCoverageInfo), then Arrange (bucketsWithFaces).  An exception raised *)
(* while rendering ends the computation.                                   *)

\* Photo timestamps of the inputs, chosen for each granularity around the
\* turn of the year 2023/2024: periods without a face in between, the leap
\* day, and for weeks Saturday 2023-12-30 at midnight and later in the day.
InputInstants(type) ==
    IF type = "year" THEN
        {At(2023, 12, 20, 1), At(2023, 12, 31, 1), At(2024, 1, 10, 1), At(2025, 1, 1, 0)}
    ELSE IF type = "month" THEN
        {At(2023, 12, 20, 1), At(2024, 1, 10, 1), At(2024, 2, 29, 1), At(2025, 1, 1, 0)}
    ELSE IF type = "week" THEN
        {At(2023, 12, 20, 1), At(2023, 12, 30, 0), At(2023, 12, 30, 1), At(2023, 12, 31, 1),
         At(2024, 1, 10, 1)}
    ELSE
        {At(2023, 12, 20, 1), At(2023, 12, 31, 1), At(2024, 1, 4, 1), At(2024, 1, 10, 1),
         At(2024, 2, 29, 1)}

\* ... and the missing or unparsable timestamp
InputTimestamps(type) == InputInstants(type) \cup {NaN}

\* score * 100 of the i-th face of an input list
InputScore(i) == IF i % 3 = 1 THEN 60 ELSE 90

\* What a face of an input list can be: accepted with one of the input
\* timestamps, or one face that is not accepted.
InputFaceChoices(type) ==
    {[photo_timestamp |-> t, accepted |-> TRUE] : t \in InputTimestamps(type)}
        \cup {[photo_timestamp |-> At(2024, 3, 1, 0), accepted |-> FALSE]}

InputFaceLists(type) ==
    {[i \in 1..MaxFaces |->
        [face_id |-> i,
         photo_timestamp |-> c[i].photo_timestamp,
         score |-> InputScore(i),
         accepted |-> c[i].accepted]]
     : c \in [1..MaxFaces -> InputFaceChoices(type)]}

NoCoverage == [threw |-> FALSE, buckets |-> <<>>, info |-> <<>>]

\* The empty bucketFaceSelections record {}
NoSelections == <<>>

BucketInit ==
    /\ bucketType \in BucketSizes \cup {"all"}
    /\ faces \in InputFaceLists(bucketType)
    /\ pc = "input"
    /\ coverage = NoCoverage
    /\ arranged = <<>>

\* Configure renders: bucketCoverage, then getCoverageInfo
RenderConfigure ==
    /\ pc = "input"
    /\ \E sorted \in SortOutcomes(AllTimestamps(AcceptedFaces(faces))) :
         LET result == bucketCoverage(faces, bucketType, sorted)
         IN  IF result.threw
             THEN /\ coverage' = [threw |-> TRUE, buckets |-> <<>>, info |-> <<>>]
                  /\ pc' = "crashed"
             ELSE /\ coverage' = [threw |-> FALSE,
                                  buckets |-> result.buckets,
                                  info |-> getCoverageInfo(faces, bucketType, result.buckets)]
                  /\ pc' = "configure"
    /\ UNCHANGED <<faces, bucketType, arranged, layoutVars, wizardVars>>

\* Arrange renders: bucketsWithFaces, with no selection made yet
RenderArrange ==
    /\ pc = "configure"
    /\ arranged' = bucketsWithFaces(faces, bucketType, NoSelections)
    /\ pc' = "arrange"
    /\ UNCHANGED <<faces, bucketType, coverage, layoutVars, wizardVars>>

-----------------------------------------------------------------------------
(* getBucketKey and the order of Arrange's buckets on two accepted faces    *)
(* whose timestamps lie around the turn of a year and the end of February.  *)

KeyDays ==
    (DayNumber(2023, 12, 18)..DayNumber(2024, 1, 8))
        \cup (DayNumber(2024, 2, 27)..DayNumber(2024, 3, 2))
        \cup (DayNumber(2024, 12, 28)..DayNumber(2025, 1, 5))

KeyInstants == {d * TicksPerDay + tick : d \in KeyDays, tick \in 0..(TicksPerDay - 1)}

\* Two accepted faces, the first not later than the second
KeyFaceLists ==
    {<<[face_id |-> 1, photo_timestamp |-> t1, score |-> InputScore(1), accepted |-> TRUE],
       [face_id |-> 2, photo_timestamp |-> t2, score |-> InputScore(2), accepted |-> TRUE]>> :
        t1 \in KeyInstants, t2 \in KeyInstants} 

KeysInit ==
    /\ bucketType \in BucketSizes
    /\ faces \in {fs \in KeyFaceLists : fs[1].photo_timestamp <= fs[2].photo_timestamp}
    /\ pc = "configure"
    /\ coverage = NoCoverage
    /\ arranged = <<>>



-----------------------------------------------------------------------------
(* Collage.tsx: the layout useMemo *)

\* paperDimensions: [width, height] in pixels
paperDimensions ==
    [A5 |-> <<1748, 2480>>, A4 |-> <<2480, 3508>>, A3 |-> <<3508, 4961>>]

PaperFormats == {"A5", "A4", "A3"}

\* The legibility floor of the acceptance test
MinTileSize == 150

\* The candidate column counts: for (let cols = 3; cols <= maxCols; cols++)
FirstCols == 3
MaxCols(n) == IF n < 12 THEN n ELSE 12

\* Math.floor(paperWidth / (cols * 1.1 + 0.1)) = floor(10 * paperWidth / (11 * cols + 1)).
\* For the widths of paperDimensions and cols in 3..12 the IEEE-754 double
\* quotient has the same floor as the exact one.
TileFromWidth(width, cols) == (10 * width) \div (11 * cols + 1)

\* Math.floor(paperHeight / (rows * 1.18 + 0.1)) = floor(50 * paperHeight / (59 * rows + 5));
\* likewise exact for the heights of paperDimensions.
TileFromHeight(height, rows) == (50 * height) \div (59 * rows + 5)

\* Math.min
MinOf(a, b) == IF a < b THEN a ELSE b

\* Variant dividing the remaining width by the number of columns instead of
\* the number of gaps
CandidatePaddingPerColumn(n, width, height, cols) ==
    LET rows == CeilDiv(n, cols)
        tileSize == MinOf(TileFromWidth(width, cols), TileFromHeight(height, rows))
        remainingWidth == width - cols * tileSize
        paddingX == remainingWidth \div cols
        remainingHeight == height - rows * tileSize
        paddingY == IF rows > 1 THEN remainingHeight \div (rows + 1) ELSE remainingHeight \div 3
    IN  [columns |-> cols, tileSize |-> tileSize, paddingX |-> paddingX,
         paddingY |-> paddingY, margin |-> MinOf(paddingX, paddingY)]

\* The layout a candidate column count yields
Candidate(n, width, height, cols) ==
    LET rows == CeilDiv(n, cols)
        tileSize == MinOf(TileFromWidth(width, cols), TileFromHeight(height, rows))
        remainingWidth == width - cols * tileSize
        paddingX == IF cols > 1 THEN remainingWidth \div (cols + 1) ELSE remainingWidth \div 3
        remainingHeight == height - rows * tileSize
        paddingY == IF rows > 1 THEN remainingHeight \div (rows + 1) ELSE remainingHeight \div 3
    IN  [columns |-> cols, tileSize |-> tileSize, paddingX |-> paddingX,
         paddingY |-> paddingY, margin |-> MinOf(paddingX, paddingY)]

\* Variants of the acceptance test: without the floor, keeping the later of
\* two equal candidates, keeping the first candidate that reaches the floor.
AcceptsWithoutFloor(tileSize, bestTileSize) == tileSize > bestTileSize
AcceptsTies(tileSize, bestTileSize) == tileSize >= bestTileSize /\ tileSize >= MinTileSize
AcceptsFirst(tileSize, bestTileSize) == bestTileSize = 0 /\ tileSize >= MinTileSize
\* Variant with the comparison to the best so far inverted
AcceptsInverted(tileSize, bestTileSize) == tileSize < bestTileSize /\ tileSize >= MinTileSize

\* if (tileSize > bestLayout.tileSize && tileSize >= 150)
Accepts(tileSize, bestTileSize) == tileSize > bestTileSize /\ tileSize >= MinTileSize

\* Variant of the initial bestLayout with a tile of the minimum size
InitialBestLayoutMinTile == [columns |-> 3, tileSize |-> 150, paddingX |-> 0, paddingY |-> 0, margin |-> 32]

\* Variant of the initial bestLayout with no column
InitialBestLayoutNoColumn == [columns |-> 0, tileSize |-> 0, paddingX |-> 0, paddingY |-> 0, margin |-> 32]

\* The initial bestLayout
InitialBestLayout == [columns |-> 3, tileSize |-> 0, paddingX |-> 0, paddingY |-> 0, margin |-> 32]

\* The layout returned when there is no face
EmptyLayout == [columns |-> 12, tileSize |-> 160, paddingX |-> 4, paddingY |-> 4, margin |-> 32]

\* The loop over cols, from cols on, with the best layout so far
RECURSIVE LayoutLoop(_, _, _, _, _)
LayoutLoop(n, width, height, cols, bestLayout) ==
    IF cols > MaxCols(n) THEN bestLayout
    ELSE LET c == Candidate(n, width, height, cols)
         IN  LayoutLoop(n, width, height, cols + 1,
                        IF Accepts(c.tileSize, bestLayout.tileSize) THEN c ELSE bestLayout)

\* Variant of the useMemo without the early return for no face
LayoutWithoutEmptyCase(n, width, height) ==
    LayoutLoop(n, width, height, FirstCols, InitialBestLayout)

\* The value of the layout useMemo
Layout(n, width, height) ==
    IF n = 0 THEN EmptyLayout
    ELSE LayoutLoop(n, width, height, FirstCols, InitialBestLayout)

\* finalRows = Math.ceil(numFaces / finalColumns)
FinalRows(n, plan) == CeilDiv(n, plan.columns)

-----------------------------------------------------------------------------
(* The layout solver applied to a number of faces and a canvas.  The       *)
(* canvases are the widths and heights of paperDimensions, also combined   *)
(* across formats.                                                         *)

PaperWidths == {paperDimensions[f][1] : f \in PaperFormats}
PaperHeights == {paperDimensions[f][2] : f \in PaperFormats}

LayoutInit ==
    /\ numFaces \in 0..MaxItems
    /\ paperWidth \in PaperWidths
    /\ paperHeight \in PaperHeights
    /\ layoutPc = "input"
    /\ layout = InitialBestLayout

\* Collage renders: the layout useMemo runs
ComputeLayout ==
    /\ layoutPc = "input"
    /\ layout' = Layout(numFaces, paperWidth, paperHeight)
    /\ layoutPc' = "done"
    /\ UNCHANGED <<numFaces, paperWidth, paperHeight, bucketVars, wizardVars>>


-----------------------------------------------------------------------------
(* Collage.tsx: facesToUse and the request *)

\* Object.values(bucketFaceSelections), here in the order of the keys
ObjectValues(selections) ==
    LET keys == SortKeys(DOMAIN selections)
    IN  [i \in DOMAIN keys |-> selections[keys[i]]]

\* A list without repetitions holding the ids of a set
RECURSIVE ListOf(_)
ListOf(S) == IF S = {} THEN <<>> ELSE LET x == Min(S) IN <<x>> \o ListOf(S \ {x})

\* facesToUse
facesToUse(selections, savedIds) ==
    IF Cardinality(DOMAIN selections) > 0 THEN ObjectValues(selections) ELSE ListOf(savedIds)

\* Math.round(tileSize * 0.1)
CornerRadius(tileSize) == (tileSize + 5) \div 10

\* The request useMemo, for the A4 output format the component fixes
CollageRequest(selections, savedIds, roundedCorners, showLabels) ==
    LET ids == facesToUse(selections, savedIds)
        plan == Layout(Len(ids), paperDimensions["A4"][1], paperDimensions["A4"][2])
    IN  [bucket |-> "all",
         tile_size |-> plan.tileSize,
         columns |-> plan.columns,
         padding_x |-> plan.paddingX,
         padding_y |-> plan.paddingY,
         margin |-> plan.margin,
         face_ids |-> IF Len(ids) > 0 THEN ids ELSE Null,
         corner_radius |-> IF roundedCorners THEN CornerRadius(plan.tileSize) ELSE 0,
         show_labels |-> showLabels,
         output_format |-> "A4"]

-----------------------------------------------------------------------------
(* The wizard: App routes on currentStep; each step's component is mounted *)
(* while its step is shown and loses its local state when it unmounts.     *)

Phases == <<"idle", "scanning", "detecting", "embedding", "clustering", "done">>

\* The faces of the run: two in January 2024 (the first below the
\* confidence threshold), one in February.
RunFaces ==
    <<[face_id |-> 1, photo_timestamp |-> At(2024, 1, 5, 1), score |-> 60, accepted |-> FALSE],
      [face_id |-> 2, photo_timestamp |-> At(2024, 1, 20, 1), score |-> 90, accepted |-> FALSE],
      [face_id |-> 3, photo_timestamp |-> At(2024, 2, 10, 1), score |-> 90, accepted |-> FALSE]>>

FaceIds(fs) == {fs[i].face_id : i \in DOMAIN fs}

\* The threshold of the initial selection: f.score * 100 >= 75
ConfidenceThreshold == 75

\* faces.filter(f => f.score * 100 >= 75).map(f => f.face_id)
HighConfidenceIds(fs) == {fs[i].face_id : i \in {j \in DOMAIN fs : fs[j].score >= ConfidenceThreshold}}

\* The face lists the server can hold after POST /api/review with
\* accept = ids and reject = []: the accepted faces are the ids sent, or the
\* ids sent are added to the faces accepted before.
ReviewOutcomes(fs, ids) ==
    {[i \in DOMAIN fs |-> [fs[i] EXCEPT !.accepted = (fs[i].face_id \in ids)]],
     [i \in DOMAIN fs |-> [fs[i] EXCEPT !.accepted = (fs[i].accepted \/ fs[i].face_id \in ids)]]}

\* { ...a, ...b }
Spread(a, b) == [k \in DOMAIN a \cup DOMAIN b |-> IF k \in DOMAIN b THEN b[k] ELSE a[k]]

\* Arrange's effect on bucketsWithFaces: initial selections for the buckets
\* with several faces that have none, merged into the store.
InitialSelections(bs, selections) ==
    LET todo == {i \in DOMAIN bs : Len(bs[i].faces) > 1 /\ bs[i].key \notin DOMAIN selections}
    IN  [k \in {bs[i].key : i \in todo} |->
            LET i == CHOOSE j \in todo : bs[j].key = k IN bs[i].faces[1].face_id]

ArrangeEffect(fs, type, selections) ==
    LET initialSelections == InitialSelections(bucketsWithFaces(fs, type, selections), selections)
    IN  IF Cardinality(DOMAIN initialSelections) > 0
        THEN Spread(selections, initialSelections)
        ELSE selections

\* Whether mounting Scan schedules another advance to review
ScanSchedules(step, run, ph) == step = 1 /\ run /\ ph = "done"

\* setCurrentStep(step) and the mount of the component of that step, given
\* the store as the handler left it:
\*   Scan      its effect on (runId, phase) loads the faces and schedules the advance;
\*   Review    local selection from the store; the faces query selects the
\*             high-confidence faces when the store holds no selection;
\*   Configure local granularity "month";
\*   Arrange   the initial-selection effect, which the caller applies to
\*             the selections it passes.
\* Setting the step already shown mounts nothing.
Show(step, fs, savedIds, type, selections, timers) ==
    IF step = currentStep
    THEN /\ scanTimers' = timers
         /\ UNCHANGED <<currentStep, selectedFaceIds, selectedIds, selectedBucket,
                        selectedBucketType, bucketFaceSelections>>
    ELSE /\ currentStep' = step
         /\ selectedFaceIds' = IF step = 2 /\ savedIds = {} THEN HighConfidenceIds(fs) ELSE savedIds
         /\ selectedIds' = IF step = 2 THEN selectedFaceIds' ELSE {}
         /\ selectedBucket' = "month"
         /\ selectedBucketType' = type
         /\ bucketFaceSelections' = selections
         /\ scanTimers' = IF ScanSchedules(step, runId, phase) THEN timers + 1 ELSE timers

CanShow(step) == (step # currentStep /\ ScanSchedules(step, runId, phase)) => scanTimers < MaxTimers

WizardInit ==
    /\ currentStep = 1
    /\ runId = FALSE
    /\ phase = "idle"
    /\ selectedIds = {}
    /\ selectedFaceIds = {}
    /\ selectedBucket = "month"
    /\ selectedBucketType = "none"
    /\ bucketFaceSelections = NoSelections
    /\ scanTimers = 0
    /\ reviewTimers = 0
    /\ progress = [processed |-> 0, total |-> 0, message |-> Null]
    /\ storeBuckets = <<>>
    /\ currentBucket = Null
    /\ facesByBucket = <<>>
    /\ skipped = <<>>
    /\ toasts = <<>>
    /\ isStarting = FALSE
    /\ uploads = <<>>

\* Scan: handleStartScan, the upload answered with a run id
StartScan ==
    /\ currentStep = 1 /\ ~runId
    /\ runId' = TRUE
    /\ UNCHANGED <<faces, currentStep, phase, selectedIds, selectedFaceIds, selectedBucket,
                   selectedBucketType, bucketFaceSelections, scanTimers, reviewTimers>>
    /\ UNCHANGED wizardFrame

\* The status events of a run: a phase, the files processed so far (all of
\* them when the run is done) and a message, which an event may lack.
StatusResponses ==
    {[run_id |-> TRUE, phase |-> p, processed |-> n, total |-> MaxProcessed, message |-> <<p>>] :
        p \in {Phases[i] : i \in 2..(Len(Phases) - 1)}, n \in 0..MaxProcessed}
    \cup {[run_id |-> TRUE, phase |-> "done", processed |-> MaxProcessed,
            total |-> MaxProcessed, message |-> <<"done">>]}
    \cup {[run_id |-> TRUE, phase |-> "error", processed |-> n, total |-> MaxProcessed,
            message |-> Null] : n \in 0..MaxProcessed}

\* Variant that stores the status itself as the progress
updateStatusWhole(status) ==
    /\ phase' = status.phase
    /\ progress' = status

\* useRunStore: updateStatus, the two fields it sets
updateStatus(status) ==
    /\ phase' = status.phase
    /\ progress' = [processed |-> status.processed, total |-> status.total,
                    message |-> status.message]

\* Scan: a phase event of the run's stream, updateStatus; on "done" the
\* server holds the faces of the run and Scan's effect schedules the advance.
StatusEvent ==
    /\ currentStep = 1 /\ runId
    /\ \E i \in 1..(Len(Phases) - 1) : \E status \in StatusResponses :
         /\ phase = Phases[i]
         /\ status.phase = Phases[i + 1]
         /\ updateStatus(status)
         /\ IF Phases[i + 1] = "done"
            THEN /\ faces' = RunFaces
                 /\ scanTimers < MaxTimers
                 /\ scanTimers' = scanTimers + 1
            ELSE UNCHANGED <<faces, scanTimers>>
    /\ UNCHANGED <<currentStep, runId, selectedIds, selectedFaceIds, selectedBucket,
                   selectedBucketType, bucketFaceSelections, reviewTimers>>
    /\ UNCHANGED eventFrame

\* Scan: the stream reports the failure of the run, updateStatus
RunFails ==
    /\ currentStep = 1 /\ runId
    /\ phase \notin {"done", "error"}
    /\ \E status \in StatusResponses :
         /\ status.phase = "error"
         /\ updateStatus(status)
    /\ UNCHANGED <<faces, currentStep, runId, selectedIds, selectedFaceIds, selectedBucket,
                   selectedBucketType, bucketFaceSelections, scanTimers, reviewTimers>>
    /\ UNCHANGED eventFrame

\* Scan: setTimeout(() => setCurrentStep(2), 1000) fires; never cancelled
ScanTimerFires ==
    /\ scanTimers > 0
    /\ Show(2, faces, selectedFaceIds, selectedBucketType, bucketFaceSelections, scanTimers - 1)
    /\ UNCHANGED <<faces, runId, phase, reviewTimers>>
    /\ UNCHANGED wizardFrame

\* Review: toggleFace without the shift key
ToggleFace ==
    /\ currentStep = 2
    /\ \E id \in FaceIds(faces) :
         selectedIds' = IF id \in selectedIds THEN selectedIds \ {id} ELSE selectedIds \cup {id}
    /\ UNCHANGED <<faces, currentStep, runId, phase, selectedFaceIds, selectedBucket,
                   selectedBucketType, bucketFaceSelections, scanTimers, reviewTimers>>
    /\ UNCHANGED wizardFrame

\* Review: selectAll
SelectAll ==
    /\ currentStep = 2
    /\ selectedIds' = FaceIds(faces)
    /\ UNCHANGED <<faces, currentStep, runId, phase, selectedFaceIds, selectedBucket,
                   selectedBucketType, bucketFaceSelections, scanTimers, reviewTimers>>
    /\ UNCHANGED wizardFrame

\* Review: deselectAll
DeselectAll ==
    /\ currentStep = 2
    /\ selectedIds' = {}
    /\ UNCHANGED <<faces, currentStep, runId, phase, selectedFaceIds, selectedBucket,
                   selectedBucketType, bucketFaceSelections, scanTimers, reviewTimers>>
    /\ UNCHANGED wizardFrame

\* Review: selectByConfidence, at the default threshold
SelectByConfidence ==
    /\ currentStep = 2
    /\ selectedIds' = HighConfidenceIds(faces)
    /\ UNCHANGED <<faces, currentStep, runId, phase, selectedFaceIds, selectedBucket,
                   selectedBucketType, bucketFaceSelections, scanTimers, reviewTimers>>
    /\ UNCHANGED wizardFrame

\* Review: handleAcceptSelected, the review accepted by the server: the
\* selection is saved, the server updates the faces, the advance is scheduled.
AcceptSelected ==
    /\ currentStep = 2 /\ runId
    /\ selectedIds # {}
    /\ reviewTimers < MaxTimers
    /\ selectedFaceIds' = selectedIds
    /\ faces' \in ReviewOutcomes(faces, selectedIds)
    /\ reviewTimers' = reviewTimers + 1
    /\ UNCHANGED <<currentStep, runId, phase, selectedIds, selectedBucket,
                   selectedBucketType, bucketFaceSelections, scanTimers>>
    /\ UNCHANGED wizardFrame

\* Review: handleAcceptSelected, the request failed: the selection is saved
\* and nothing else happens but a toast.
AcceptFails ==
    /\ currentStep = 2 /\ runId
    /\ selectedIds # {}
    /\ selectedFaceIds' = selectedIds
    /\ UNCHANGED <<faces, currentStep, runId, phase, selectedIds, selectedBucket,
                   selectedBucketType, bucketFaceSelections, scanTimers, reviewTimers>>
    /\ UNCHANGED wizardFrame

\* Review: setTimeout(() => setCurrentStep(3), 1000) fires; never cancelled
ReviewTimerFires ==
    /\ reviewTimers > 0
    /\ CanShow(3)
    /\ Show(3, faces, selectedFaceIds, selectedBucketType, bucketFaceSelections, scanTimers)
    /\ reviewTimers' = reviewTimers - 1
    /\ UNCHANGED <<faces, runId, phase>>
    /\ UNCHANGED wizardFrame

\* Review: Back to Scan
ReviewBack ==
    /\ currentStep = 2
    /\ CanShow(1)
    /\ Show(1, faces, selectedFaceIds, selectedBucketType, bucketFaceSelections, scanTimers)
    /\ UNCHANGED <<faces, runId, phase, reviewTimers>>
    /\ UNCHANGED wizardFrame

\* Configure: the bucket selector's onChange
ChooseBucket ==
    /\ currentStep = 3
    /\ \E b \in BucketSizes \cup {"all"} : selectedBucket' = b
    /\ UNCHANGED <<faces, currentStep, runId, phase, selectedIds, selectedFaceIds,
                   selectedBucketType, bucketFaceSelections, scanTimers, reviewTimers>>
    /\ UNCHANGED wizardFrame

\* Configure: handleContinue
ConfigureContinue ==
    /\ currentStep = 3
    /\ Show(4, faces, selectedFaceIds, selectedBucket,
            ArrangeEffect(faces, selectedBucket, bucketFaceSelections), scanTimers)
    /\ UNCHANGED <<faces, runId, phase, reviewTimers>>
    /\ UNCHANGED wizardFrame

\* Configure: Back to Review
ConfigureBack ==
    /\ currentStep = 3
    /\ Show(2, faces, selectedFaceIds, selectedBucketType, bucketFaceSelections, scanTimers)
    /\ UNCHANGED <<faces, runId, phase, reviewTimers>>
    /\ UNCHANGED wizardFrame

\* Arrange: handleFaceSelection on a face shown in a bucket with several
\* faces, followed by the effect on the new bucketsWithFaces.
FaceSelection ==
    /\ currentStep = 4
    /\ LET bs == bucketsWithMultipleFaces(bucketsWithFaces(faces, selectedBucketType, bucketFaceSelections))
       IN  \E i \in DOMAIN bs : \E j \in DOMAIN bs[i].faces :
             LET selections == Spread(bucketFaceSelections,
                                      [k \in {bs[i].key} |-> bs[i].faces[j].face_id])
             IN  bucketFaceSelections' = ArrangeEffect(faces, selectedBucketType, selections)
    /\ UNCHANGED <<faces, currentStep, runId, phase, selectedIds, selectedFaceIds, selectedBucket,
                   selectedBucketType, scanTimers, reviewTimers>>
    /\ UNCHANGED wizardFrame

\* Arrange: handleContinue
ArrangeContinue ==
    /\ currentStep = 4
    /\ Show(5, faces, selectedFaceIds, selectedBucketType, bucketFaceSelections, scanTimers)
    /\ UNCHANGED <<faces, runId, phase, reviewTimers>>
    /\ UNCHANGED wizardFrame

\* Arrange: Back to Configure
ArrangeBack ==
    /\ currentStep = 4
    /\ Show(3, faces, selectedFaceIds, selectedBucketType, bucketFaceSelections, scanTimers)
    /\ UNCHANGED <<faces, runId, phase, reviewTimers>>
    /\ UNCHANGED wizardFrame

\* Collage: Back to Arrange
CollageBack ==
    /\ currentStep = 5
    /\ Show(4, faces, selectedFaceIds, selectedBucketType,
            ArrangeEffect(faces, selectedBucketType, bucketFaceSelections), scanTimers)
    /\ UNCHANGED <<faces, runId, phase, reviewTimers>>
    /\ UNCHANGED wizardFrame

-----------------------------------------------------------------------------
(* useRunStore: updateStatus applied to a store.  The store is the one the *)
(* application starts with, which the store's test uses, or the store of a *)
(* run at any step of the wizard.                                          *)

\* A bucket summary of the server and the key of the bucket
SummaryKey == <<"2", "0", "2", "4", "-", "0", "1">>
SummaryInputs == {<<>>, <<[key |-> SummaryKey, label |-> getBucketLabel(SummaryKey, "month"),
                          photo_count |-> 2, face_count |-> 2]>>}

\* A toast of the queue
ToastInputs == {<<>>, <<[id |-> 1, title |-> "Upload cancelled", variant |-> "default"]>>}

StoreInit ==
    /\ currentStep \in 1..5
    /\ runId \in BOOLEAN
    /\ phase = "idle"
    /\ progress = [processed |-> 0, total |-> 0, message |-> Null]
    /\ storeBuckets \in SummaryInputs
    /\ currentBucket = (IF Len(storeBuckets) > 0 THEN storeBuckets[1].key ELSE Null)
    /\ facesByBucket \in {<<>>, [k \in {SummaryKey} |-> SubSeq(RunFaces, 1, 2)]}
    /\ skipped \in {<<>>, <<[path |-> "a.jpg", reason |-> "no_exif"]>>}
    /\ selectedFaceIds \in {{}, HighConfidenceIds(RunFaces)}
    /\ selectedBucketType \in {"none", "month", "all"}
    /\ bucketFaceSelections \in {NoSelections, [k \in {SummaryKey} |-> 2]}
    /\ toasts \in ToastInputs
    /\ ~runId =>
          /\ currentStep = 1
          /\ storeBuckets = <<>> /\ facesByBucket = <<>> /\ skipped = <<>>
          /\ selectedFaceIds = {} /\ selectedBucketType = "none"
          /\ bucketFaceSelections = NoSelections /\ toasts = <<>>
    /\ selectedIds = {}
    /\ selectedBucket = "month"
    /\ scanTimers = 0
    /\ reviewTimers = 0
    /\ isStarting = FALSE
    /\ uploads = <<>>

\* updateStatus(status): set({ phase, progress }) merges the two fields
\* into the store
UpdateStatus ==
    /\ \E status \in StatusResponses : updateStatus(status)
    /\ UNCHANGED <<currentStep, runId, selectedIds, selectedFaceIds, selectedBucket,
                   selectedBucketType, bucketFaceSelections, scanTimers, reviewTimers>>
    /\ UNCHANGED <<faces, eventFrame>>

-----------------------------------------------------------------------------
(* Scan: handleStartScan, from the click to the answer of the upload, the  *)
(* Cancel button, and the toast queue of the store with the timer of the   *)
(* Toasts component.  Scan stays mounted: the run's events are left out.   *)

\* crypto.randomUUID(): an id no toast of the queue has
FreshId(ts) == CHOOSE n \in 1..(Len(ts) + 1) : \A i \in DOMAIN ts : ts[i].id # n

\* pushToast: [...state.toasts, { id, variant: "default", ...toast }]
pushToast(ts, title, variant) == Append(ts, [id |-> FreshId(ts), title |-> title, variant |-> variant])

\* popToast: state.toasts.slice(1)
popToast(ts) == SubSeq(ts, 2, Len(ts))

\* Variant of the effect that arms the timer only for several toasts
TimerArmedForSeveral(ts) == Len(ts) > 1

\* Toasts' effect on [toasts]: the timer of the last run is cleared, a new
\* one is started if (toasts.length)
TimerArmed(ts) == Len(ts) > 0

\* The titles of the toasts handleStartScan shows before it sends anything
NothingToScan == {"No images to scan", "No valid images to scan"}

\* ... and when the request fails or is aborted after 120 s
UploadErrors == {"Upload timed out", "Failed to upload images"}

\* The answers of /api/upload-scan: the number of valid images and whether
\* images were skipped
UploadAnswers == [valid_count : {0, 1}, skipped : BOOLEAN]

scanFrame == <<faces, currentStep, phase, selectedIds, selectedFaceIds, selectedBucket,
               selectedBucketType, bucketFaceSelections, scanTimers, reviewTimers,
               bucketType, pc, coverage, arranged, layoutVars, progress, storeBuckets,
               currentBucket, facesByBucket, skipped>>

\* The upload panel is shown
CanStart == currentStep = 1 /\ ~runId /\ ~isStarting

\* handleStartScan with no image, or none that is valid: a toast, return
StartWithoutImages ==
    /\ CanStart
    /\ Len(toasts) < MaxToasts
    /\ \E title \in NothingToScan : toasts' = pushToast(toasts, title, "error")
    /\ UNCHANGED <<runId, isStarting, uploads, scanFrame>>

\* handleStartScan up to the fetch: setIsStarting(true), the request is sent
StartUpload ==
    /\ CanStart
    /\ Len(uploads) < MaxUploads
    /\ isStarting' = TRUE
    /\ uploads' = Append(uploads, [status |-> "pending", cancelled |-> FALSE])
    /\ UNCHANGED <<runId, toasts, scanFrame>>

\* The Cancel button, shown while isStarting: the upload it is pressed
\* during is the last one started
CancelUpload ==
    /\ currentStep = 1 /\ isStarting
    /\ Len(toasts) < MaxToasts
    /\ isStarting' = FALSE
    /\ toasts' = pushToast(toasts, "Upload cancelled", "default")
    /\ uploads' = [uploads EXCEPT ![Len(uploads)].cancelled = TRUE]
    /\ UNCHANGED <<runId, scanFrame>>

\* handleStartScan after the fetch: the toast on skipped images, setRunId
\* and its toast when an image is valid, finally setIsStarting(false)
UploadAnswered ==
    /\ \E i \in DOMAIN uploads : \E data \in UploadAnswers :
         LET report == IF data.skipped THEN pushToast(toasts, "valid, skipped", "default")
                       ELSE toasts
         IN  /\ uploads[i].status = "pending"
             /\ IF data.valid_count > 0
                THEN /\ runId' = TRUE
                     /\ toasts' = pushToast(report, "Processing images", "default")
                     /\ uploads' = [uploads EXCEPT ![i].status = "started"]
                ELSE /\ runId' = runId
                     /\ toasts' = report
                     /\ uploads' = [uploads EXCEPT ![i].status = "empty"]
             /\ Len(toasts') <= MaxToasts
    /\ isStarting' = FALSE
    /\ UNCHANGED scanFrame

\* handleStartScan, the catch: the request failed or was aborted
UploadFails ==
    /\ \E i \in DOMAIN uploads :
         /\ uploads[i].status = "pending"
         /\ uploads' = [uploads EXCEPT ![i].status = "failed"]
    /\ Len(toasts) < MaxToasts
    /\ \E title \in UploadErrors : toasts' = pushToast(toasts, title, "error")
    /\ isStarting' = FALSE
    /\ UNCHANGED <<runId, scanFrame>>

\* Toasts: the timer of the effect fires, popToast
ToastTimerFires ==
    /\ TimerArmed(toasts)
    /\ toasts' = popToast(toasts)
    /\ UNCHANGED <<runId, isStarting, uploads, scanFrame>>

\* Toasts: onOpenChange(false) of a toast shown, popToast
DismissToast ==
    /\ Len(toasts) > 0
    /\ toasts' = popToast(toasts)
    /\ UNCHANGED <<runId, isStarting, uploads, scanFrame>>

-----------------------------------------------------------------------------
(* Specifications *)

\* The parts of the state a specification does not use
BucketIdle ==
    /\ faces = <<>>
    /\ bucketType = "none"
    /\ pc = "idle"
    /\ coverage = NoCoverage
    /\ arranged = <<>>

LayoutIdle ==
    /\ numFaces = 0
    /\ paperWidth = paperDimensions["A4"][1]
    /\ paperHeight = paperDimensions["A4"][2]
    /\ layoutPc = "idle"
    /\ layout = InitialBestLayout

\* The wizard, from the first screen
Init == WizardInit /\ BucketIdle /\ LayoutIdle

Next ==
    \/ StartScan
    \/ StatusEvent
    \/ RunFails
    \/ ScanTimerFires
    \/ ToggleFace
    \/ SelectAll
    \/ DeselectAll
    \/ SelectByConfidence
    \/ AcceptSelected
    \/ AcceptFails
    \/ ReviewTimerFires
    \/ ReviewBack
    \/ ChooseBucket
    \/ ConfigureContinue
    \/ ConfigureBack
    \/ FaceSelection
    \/ ArrangeContinue
    \/ ArrangeBack
    \/ CollageBack

Spec == Init /\ [][Next]_vars

\* The bucketing functions on bounded face lists
InitBucket == BucketInit /\ LayoutIdle /\ WizardInit

NextBucket == RenderConfigure \/ RenderArrange

SpecBucket == InitBucket /\ [][NextBucket]_vars

\* The bucket keys of two faces, as Arrange computes and sorts them
InitKeys == KeysInit /\ LayoutIdle /\ WizardInit

NextKeys == RenderArrange

SpecKeys == InitKeys /\ [][NextKeys]_vars

\* updateStatus on the stores above
InitStore == StoreInit /\ BucketIdle /\ LayoutIdle

NextStore == UpdateStatus

SpecStore == InitStore /\ [][NextStore]_vars

\* Scan's upload and the toast queue, from the first screen
NextScan ==
    \/ StartWithoutImages
    \/ StartUpload
    \/ CancelUpload
    \/ UploadAnswered
    \/ UploadFails
    \/ ToastTimerFires
    \/ DismissToast

SpecScan == Init /\ [][NextScan]_vars

\* ... with the timer of Toasts firing when it stays armed
SpecToasts == SpecScan /\ WF_vars(ToastTimerFires)

\* The layout solver on bounded inputs
InitLayout == LayoutInit /\ BucketIdle /\ WizardInit

NextLayout == ComputeLayout

SpecLayout == InitLayout /\ [][NextLayout]_vars

-----------------------------------------------------------------------------
(* The layout solver: tile floor, optimality, monotonicity, the empty plan *)

\* C7: an accepted candidate has a tile size of at least 150: a returned plan
\* for one face or more is the initial bestLayout or has tileSize >= 150, and
\* it has tileSize >= 150 whenever some column count in 3..min(12, n)
\* reaches the floor.
C7_TileFloor ==
    (layoutPc = "done" /\ numFaces >= 1) =>
        LET tiles == {Candidate(numFaces, paperWidth, paperHeight, c).tileSize :
                        c \in FirstCols..MaxCols(numFaces)}
        IN  /\ layout # InitialBestLayout => layout.tileSize >= 150
            /\ (\E t \in tiles : t >= 150) => layout.tileSize >= 150

\* A plan was returned although some column counts stay below the floor.
C7_Witness ==
    /\ layoutPc = "done"
    /\ numFaces >= 12
    /\ layout.tileSize >= 150
    /\ \E c \in FirstCols..MaxCols(numFaces) :
         Candidate(numFaces, paperWidth, paperHeight, c).tileSize < 150

\* C8 as stated: for one face or more the returned plan is the candidate of
\* a column count in 3..min(12, n) whose tile size
\* min(floor(w / (cols*1.1+0.1)), floor(h / (ceil(n/cols)*1.18+0.1))) is at
\* least 150 and the largest among those, with the smallest such column count.
C8_Original ==
    (layoutPc = "done" /\ numFaces >= 1) =>
        LET tile(c) == MinOf(TileFromWidth(paperWidth, c),
                             TileFromHeight(paperHeight, CeilDiv(numFaces, c)))
            ok == {c \in FirstCols..MaxCols(numFaces) : tile(c) >= 150}
        IN  /\ layout.columns \in ok
            /\ layout = Candidate(numFaces, paperWidth, paperHeight, layout.columns)
            /\ layout.tileSize = tile(layout.columns)
            /\ \A c \in ok : tile(c) <= layout.tileSize
            /\ \A c \in ok : tile(c) = layout.tileSize => layout.columns <= c

\* C8, amended: the same, whenever some column count in 3..min(12, n) reaches
\* the floor.
C8_MaxTileSmallestColumns ==
    (layoutPc = "done" /\ numFaces >= 1) =>
        LET tile(c) == MinOf(TileFromWidth(paperWidth, c),
                             TileFromHeight(paperHeight, CeilDiv(numFaces, c)))
            ok == {c \in FirstCols..MaxCols(numFaces) : tile(c) >= 150}
        IN  ok # {} =>
            /\ layout.columns \in ok
            /\ layout = Candidate(numFaces, paperWidth, paperHeight, layout.columns)
            /\ layout.tileSize = tile(layout.columns)
            /\ \A c \in ok : tile(c) <= layout.tileSize
            /\ \A c \in ok : tile(c) = layout.tileSize => layout.columns <= c

\* Two column counts reach the same, largest tile size and the plan has the smaller.
C8_Witness ==
    /\ layoutPc = "done"
    /\ numFaces >= 1
    /\ layout.tileSize >= 150
    /\ \E c \in FirstCols..MaxCols(numFaces) :
         /\ c > layout.columns
         /\ Candidate(numFaces, paperWidth, paperHeight, c).tileSize = layout.tileSize

\* C9: for the same number of faces, a canvas at least as wide and at least
\* as high yields a tile size at least as large.
C9_Monotone ==
    layoutPc = "done" =>
        \A w \in PaperWidths : \A h \in PaperHeights :
            (paperWidth <= w /\ paperHeight <= h) =>
                layout.tileSize <= Layout(numFaces, w, h).tileSize

\* A5 against A3 with a strictly larger tile
C9_Witness ==
    /\ layoutPc = "done"
    /\ paperWidth = paperDimensions["A5"][1]
    /\ paperHeight = paperDimensions["A5"][2]
    /\ layout.tileSize >= 150
    /\ numFaces >= 3
    /\ Layout(numFaces, paperDimensions["A3"][1], paperDimensions["A3"][2]).tileSize > layout.tileSize

\* C10: for no face the plan is columns 12, tileSize 160, paddingX 4,
\* paddingY 4, margin 32, on every canvas.
C10_EmptyPlan ==
    (layoutPc = "done" /\ numFaces = 0) =>
        layout = [columns |-> 12, tileSize |-> 160, paddingX |-> 4, paddingY |-> 4, margin |-> 32]

\* The plan for no face on the A3 canvas
C10_Witness ==
    /\ layoutPc = "done"
    /\ numFaces = 0
    /\ paperWidth = paperDimensions["A3"][1]
    /\ paperHeight = paperDimensions["A3"][2]

\* C11: every returned plan has one column or more, and its columns times
\* its rows, rows = ceil(itemCount / columns), hold every item.
C11_GridHoldsItems ==
    layoutPc = "done" =>
        /\ layout.columns >= 1
        /\ layout.columns * FinalRows(numFaces, layout) >= numFaces

\* A plan from an accepted candidate whose last row is not full
C11_Witness ==
    /\ layoutPc = "done"
    /\ numFaces >= 3
    /\ layout.tileSize >= 150
    /\ layout.columns * FinalRows(numFaces, layout) > numFaces

\* C12: for 30 faces on the A4 canvas the plan has 3 to 12 columns, a tile
\* size of at least 150 and a grid that holds the 30 faces.
C12_ThirtyOnA4 ==
    (/\ layoutPc = "done"
     /\ numFaces = 30
     /\ paperWidth = 2480
     /\ paperHeight = 3508)
    => /\ layout.columns \in 3..12
       /\ layout.tileSize >= 150
       /\ layout.columns * CeilDiv(30, layout.columns) >= 30

\* The plan for 30 faces on A4 was computed
C12_Witness ==
    /\ layoutPc = "done"
    /\ numFaces = 30
    /\ paperWidth = 2480
    /\ paperHeight = 3508
    /\ layout # InitialBestLayout

\* C13 as stated: in every plan for one face or more, paddingX is
\* floor((width - columns*tileSize) / (columns+1)), paddingY is
\* floor((height - rows*tileSize) / (rows+1)) for several rows and
\* floor((height - rows*tileSize) / 3) for one row, margin is the smaller.
C13_Original ==
    (layoutPc = "done" /\ numFaces >= 1) =>
        LET rows == CeilDiv(numFaces, layout.columns)
            restX == paperWidth - layout.columns * layout.tileSize
            restY == paperHeight - rows * layout.tileSize
        IN  /\ layout.paddingX = restX \div (layout.columns + 1)
            /\ layout.paddingY = (IF rows > 1 THEN restY \div (rows + 1) ELSE restY \div 3)
            /\ layout.margin = (IF layout.paddingX < layout.paddingY
                                THEN layout.paddingX ELSE layout.paddingY)

\* C13, amended: the same for every plan returned from an accepted
\* candidate, that is whenever some column count in 3..min(12, n) reaches
\* the floor.
C13_PaddingAndMargin ==
    (/\ layoutPc = "done"
     /\ numFaces >= 1
     /\ \E c \in FirstCols..MaxCols(numFaces) :
          MinOf(TileFromWidth(paperWidth, c),
                TileFromHeight(paperHeight, CeilDiv(numFaces, c))) >= 150)
    => LET rows == CeilDiv(numFaces, layout.columns)
           restX == paperWidth - layout.columns * layout.tileSize
           restY == paperHeight - rows * layout.tileSize
       IN  /\ layout.paddingX = restX \div (layout.columns + 1)
           /\ layout.paddingY = (IF rows > 1 THEN restY \div (rows + 1) ELSE restY \div 3)
           /\ layout.margin = (IF layout.paddingX < layout.paddingY
                               THEN layout.paddingX ELSE layout.paddingY)

\* A plan with a single row, from an accepted candidate
C13_Witness ==
    /\ layoutPc = "done"
    /\ numFaces >= 1
    /\ layout.tileSize >= 150
    /\ CeilDiv(numFaces, layout.columns) = 1

\* C24: when no column count in 3..min(12, n) yields a tile of 150 or more,
\* the range being empty for one and two faces, the plan is columns 3,
\* tileSize 0, paddingX 0, paddingY 0, margin 32, whatever n and the canvas.
C24_FallbackPlan ==
    (/\ layoutPc = "done"
     /\ numFaces >= 1
     /\ \A c \in 3..(IF numFaces < 12 THEN numFaces ELSE 12) :
          MinOf(TileFromWidth(paperWidth, c),
                TileFromHeight(paperHeight, CeilDiv(numFaces, c))) < 150)
    => layout = [columns |-> 3, tileSize |-> 0, paddingX |-> 0, paddingY |-> 0, margin |-> 32]

\* Three faces or more, none of the column counts reaching the floor
C24_Witness ==
    /\ layoutPc = "done"
    /\ numFaces >= 3
    /\ layout.tileSize = 0
    /\ layout.columns = 3

\* C25: every plan returned from an accepted candidate fits its canvas:
\* the paddings are not negative, columns tiles and columns+1 paddings fit
\* the width, rows tiles and rows+1 paddings fit the height, and so do the
\* tiles with the margin on both sides and the paddings between them.
C25_PlanFitsCanvas ==
    (/\ layoutPc = "done"
     /\ numFaces >= 1
     /\ layout.tileSize >= 150)
    => LET columns == layout.columns
           rows == CHOOSE r \in 1..numFaces :
                       r * columns >= numFaces /\ (r - 1) * columns < numFaces
           tileSize == layout.tileSize
       IN  /\ layout.paddingX >= 0
           /\ layout.paddingY >= 0
           /\ columns * tileSize + (columns + 1) * layout.paddingX <= paperWidth
           /\ rows * tileSize + (rows + 1) * layout.paddingY <= paperHeight
           /\ 2 * layout.margin + columns * tileSize + (columns - 1) * layout.paddingX
                <= paperWidth
           /\ 2 * layout.margin + rows * tileSize + (rows - 1) * layout.paddingY
                <= paperHeight

\* A plan of several rows whose tile is bounded by the height
C25_Witness ==
    /\ layoutPc = "done"
    /\ layout.tileSize >= 150
    /\ CeilDiv(numFaces, layout.columns) > 1
    /\ layout.tileSize = TileFromHeight(paperHeight, CeilDiv(numFaces, layout.columns))
    /\ layout.tileSize < TileFromWidth(paperWidth, layout.columns)

-----------------------------------------------------------------------------
(* Bucketing and coverage: the range, the counts, invalid timestamps *)

\* C3: for accepted faces with valid timestamps and a granularity of day,
\* week, month or year, the keys of the generated range start with the key
\* of the earliest timestamp, end with the key of the latest, ascend
\* strictly, and are exactly the keys of the instants from the earliest to
\* the latest.
C3_RangeContiguous ==
    LET acc == AcceptedFaces(faces)
        ts == {acc[i].photo_timestamp : i \in DOMAIN acc}
        keys == [i \in DOMAIN coverage.buckets |-> coverage.buckets[i].key]
    IN  (/\ pc \in {"configure", "arrange"}
         /\ bucketType \in BucketSizes
         /\ Len(acc) > 0
         /\ \A t \in ts : IsValidDate(NewDate(t)))
        => /\ Len(keys) > 0
           /\ keys[1] = getBucketKey(Min(ts), bucketType)
           /\ keys[Len(keys)] = getBucketKey(Max(ts), bucketType)
           /\ \A i \in 1..(Len(keys) - 1) : KeyLess(keys[i], keys[i + 1])
           /\ {keys[i] : i \in DOMAIN keys} = {getBucketKey(t, bucketType) : t \in Min(ts)..Max(ts)}

\* C4: for accepted faces with valid timestamps, the face counts of the
\* range buckets add up to the number of accepted faces, and the key of
\* every accepted face is a key of the range.
C4_EveryFaceCounted ==
    LET acc == AcceptedFaces(faces)
        buckets == coverage.buckets
        counted == {<<i, n>> \in (DOMAIN buckets) \X (1..Len(acc)) : n <= buckets[i].faceCount}
    IN  (/\ pc \in {"configure", "arrange"}
         /\ bucketType \in BucketSizes
         /\ \A i \in DOMAIN acc : IsValidDate(NewDate(acc[i].photo_timestamp)))
        => /\ Cardinality(counted) = Len(acc)
           /\ \A i \in DOMAIN acc :
                \E j \in DOMAIN buckets :
                    buckets[j].key = getBucketKey(acc[i].photo_timestamp, bucketType)

\* C16: for accepted faces from 2023-12-20 to 2024-01-10 and granularity
\* week, the range runs from the key of 2023-12-20 to the key of 2024-01-10
\* without a duplicate and without a missing key, and the key of every
\* accepted face, a face of 2023-12-31 included, is a key of the range.
C16_WeeksAcrossNewYear ==
    LET acc == AcceptedFaces(faces)
        ts == {acc[i].photo_timestamp : i \in DOMAIN acc}
        keys == [i \in DOMAIN coverage.buckets |-> coverage.buckets[i].key]
    IN  (/\ pc \in {"configure", "arrange"}
         /\ bucketType = "week"
         /\ ts # {}
         /\ \A t \in ts : IsValidDate(NewDate(t))
         /\ Min(ts) \div TicksPerDay = DayNumber(2023, 12, 20)
         /\ Max(ts) \div TicksPerDay = DayNumber(2024, 1, 10))
        => /\ Len(keys) > 0
           /\ keys[1] = getBucketKey(Min(ts), "week")
           /\ keys[Len(keys)] = getBucketKey(Max(ts), "week")
           /\ \A i \in DOMAIN keys : \A j \in DOMAIN keys : i # j => keys[i] # keys[j]
           /\ \A t \in Min(ts)..Max(ts) :
                \E i \in DOMAIN keys : keys[i] = getBucketKey(t, "week")

\* C5: the buckets of Arrange, the range buckets and the coverage summary
\* are those of the face list without the accepted faces whose timestamp is
\* invalid.
C5_InvalidExcluded ==
    LET eligible == SelectSeq(faces, LAMBDA f : ~f.accepted \/ IsValidDate(NewDate(f.photo_timestamp)))
        expected == bucketCoverage(eligible, bucketType,
                                   SortAscending(AllTimestamps(AcceptedFaces(eligible))))
    IN  /\ pc \in {"configure", "arrange"} =>
              /\ coverage.buckets = expected.buckets
              /\ coverage.info = getCoverageInfo(eligible, bucketType, expected.buckets)
        /\ pc = "arrange" => arranged = bucketsWithFaces(eligible, bucketType, NoSelections)

\* C6: grouping and coverage reporting end in a bucket sequence and a
\* summary for every face list, never in an exception.
C6_NeverRaises == pc # "crashed"

\* C17: in the coverage summary covered + missing = total and
\* duplicates <= covered.
C17_CoverageCounts ==
    (pc \in {"configure", "arrange"}) =>
        /\ coverage.info.covered + coverage.info.missing = coverage.info.total
        /\ coverage.info.duplicates <= coverage.info.covered

\* A range with covered buckets, a missing one and one with several faces
C17_Witness ==
    /\ pc = "configure"
    /\ coverage.info.total >= 3
    /\ coverage.info.missing >= 1
    /\ coverage.info.duplicates >= 1
    /\ coverage.info.covered > coverage.info.duplicates

\* C18: the summary text names the first min(3, missing) missing labels in
\* range order joined by ", "; it ends with "and N more", N = missing - 3,
\* exactly when missing > 3; it is the success message exactly when
\* missing = 0.
C18_MissingSummary ==
    LET buckets == coverage.buckets
        gaps == SelectSeq(buckets, LAMBDA b : ~b.hasFace)
        n == Len(gaps)
        message == coverage.info.message
        names == IF n = 1 THEN gaps[1].label
                 ELSE IF n = 2 THEN gaps[1].label \o <<", ">> \o gaps[2].label
                 ELSE gaps[1].label \o <<", ">> \o gaps[2].label \o <<", ">> \o gaps[3].label
    IN  (pc \in {"configure", "arrange"} /\ bucketType \in BucketSizes) =>
            /\ coverage.info.missing = n
            /\ n = 0 <=> message = <<"Perfect coverage! All ">> \o Plural(Len(buckets), bucketType)
                                        \o <<" have faces">>
            /\ (n > 0 /\ n <= 3) => message = <<"Missing: ">> \o names
            /\ n > 3 => message = <<"Missing: ">> \o names \o <<" and ">> \o Str(n - 3) \o <<" more">>
            /\ n > 3 <=> (Len(message) > 0 /\ message[Len(message)] = " more")

\* More than three buckets are missing
C18_Witness ==
    /\ pc = "configure"
    /\ bucketType = "day"
    /\ coverage.info.missing = 5
    /\ coverage.info.message[Len(coverage.info.message)] = " more"

\* C19: when no face is accepted or the granularity is "all", Configure and
\* Arrange render without raising, the range and Arrange's buckets are
\* empty and the summary reports zero missing and zero duplicates; with no
\* face to place, the layout is the default plan.
C19_NothingToBucket ==
    LET chosen == {faces[i].face_id : i \in {j \in DOMAIN faces : faces[j].accepted}}
    IN  (bucketType = "all" \/ chosen = {}) =>
            /\ pc # "crashed"
            /\ pc \in {"configure", "arrange"} =>
                  /\ ~coverage.threw
                  /\ coverage.buckets = <<>>
                  /\ coverage.info.missing = 0
                  /\ coverage.info.duplicates = 0
            /\ pc = "arrange" => arranged = <<>>
            /\ chosen = {} =>
                  \A w \in PaperWidths : \A h \in PaperHeights :
                      Layout(Len(facesToUse(NoSelections, chosen)), w, h) = EmptyLayout

\* Faces with timestamps, none accepted, under a granularity that buckets
C19_Witness ==
    /\ pc = "arrange"
    /\ bucketType = "week"
    /\ Len(faces) > 0
    /\ \A i \in DOMAIN faces : ~faces[i].accepted

\* C20: in every bucket of Arrange the faces are in order of non-increasing
\* score, and with no entry for the bucket's key in the override map the
\* selected face is the first one, a face of the highest score in the bucket.
C20_BestFaceFirst ==
    pc = "arrange" =>
        \A n \in DOMAIN arranged :
            LET b == arranged[n]
                members == {i \in DOMAIN faces :
                                /\ faces[i].accepted
                                /\ getBucketKey(faces[i].photo_timestamp, bucketType) = b.key}
            IN  /\ \A i \in DOMAIN b.faces : \A j \in DOMAIN b.faces :
                      i < j => b.faces[i].score >= b.faces[j].score
                /\ {b.faces[i].face_id : i \in DOMAIN b.faces} = {faces[i].face_id : i \in members}
                /\ b.key \notin DOMAIN NoSelections =>
                      /\ b.selectedFaceId = b.faces[1].face_id
                      /\ \A i \in members : faces[i].score <= b.faces[1].score

\* A bucket whose best face is not the first of the input
C20_Witness ==
    /\ pc = "arrange"
    /\ \E n \in DOMAIN arranged :
          /\ Len(arranged[n].faces) = 3
          /\ arranged[n].faces[1].score > arranged[n].faces[3].score
          /\ arranged[n].selectedFaceId = 2

\* C26: for the same accepted faces (here with valid timestamps) and the
\* same granularity, the range buckets of Configure that have a face are
\* the buckets of Arrange, key by key with the same number of faces, and
\* Configure's duplicates count is the number of Arrange's buckets with
\* more than one face.
C26_CallSitesAgree ==
    (/\ pc = "arrange"
     /\ \A i \in DOMAIN faces :
          faces[i].accepted => IsValidDate(NewDate(faces[i].photo_timestamp)))
    => /\ {<<coverage.buckets[i].key, coverage.buckets[i].faceCount>> :
              i \in {j \in DOMAIN coverage.buckets : coverage.buckets[j].hasFace}}
            = {<<arranged[n].key, Len(arranged[n].faces)>> : n \in DOMAIN arranged}
       /\ coverage.info.duplicates = Len(bucketsWithMultipleFaces(arranged))

-----------------------------------------------------------------------------
(* Bucket keys: order, the week number *)

\* C14: for a granularity of day, week, month or year and two timestamps
\* t1 <= t2, the key of t2 does not sort before the key of t1, and the
\* buckets of Arrange, sorted by key, are in chronological order.
C14_KeysSortChronologically ==
    (pc = "arrange" /\ bucketType \in BucketSizes) =>
        /\ \A i \in DOMAIN faces : \A j \in DOMAIN faces :
             faces[i].photo_timestamp <= faces[j].photo_timestamp
                => ~KeyLess(getBucketKey(faces[j].photo_timestamp, bucketType),
                            getBucketKey(faces[i].photo_timestamp, bucketType))
        /\ \A m \in DOMAIN arranged : \A n \in DOMAIN arranged :
             m < n =>
                \A a \in DOMAIN arranged[m].faces : \A b \in DOMAIN arranged[n].faces :
                    faces[arranged[m].faces[a].face_id].photo_timestamp
                        < faces[arranged[n].faces[b].face_id].photo_timestamp

\* Two buckets in different years, months of one and two digits in a year
C14_Witness ==
    /\ pc = "arrange"
    /\ bucketType = "month"
    /\ Len(arranged) = 2
    /\ GetMonth(faces[1].photo_timestamp) = 1
    /\ GetMonth(faces[2].photo_timestamp) = 11
    /\ GetFullYear(faces[1].photo_timestamp) = GetFullYear(faces[2].photo_timestamp)

\* C15: the week key of a timestamp is YYYY-Www with
\* ww = ceil((d + w + 1) / 7) padded to two digits, d the zero-based day of
\* the year of its calendar date and w the weekday of January 1; two
\* timestamps on the same calendar day have the same week key.
C15_WeekKeyOfCalendarDate ==
    (pc = "arrange" /\ bucketType = "week") =>
        /\ \A m \in DOMAIN arranged : \A a \in DOMAIN arranged[m].faces :
             LET t == faces[arranged[m].faces[a].face_id].photo_timestamp
                 y == GetFullYear(t)
                 d == (t \div TicksPerDay) - YearStart(y)
                 w == (YearStart(y)) % 7
             IN  arranged[m].key
                    = Str(y) \o <<"-", "W">> \o PadStart2(Str(CeilDiv(d + w + 1, 7)))
        /\ \A i \in DOMAIN faces : \A j \in DOMAIN faces :
             (faces[i].photo_timestamp \div TicksPerDay) = (faces[j].photo_timestamp \div TicksPerDay)
                => getBucketKey(faces[i].photo_timestamp, "week")
                    = getBucketKey(faces[j].photo_timestamp, "week")

-----------------------------------------------------------------------------
(* The wizard: the selection of each bucket, the faces of the collage *)

\* C1: whenever Arrange is shown, the selectedFaceId of every bucket is the
\* id of one of the bucket's faces; when bucketFaceSelections holds for the
\* bucket's key an id that is not among the bucket's faces, it is the id of
\* the bucket's highest-score face.
C1_SelectionValid ==
    currentStep = 4 =>
        LET bs == bucketsWithFaces(faces, selectedBucketType, bucketFaceSelections)
        IN  \A i \in DOMAIN bs :
              /\ bs[i].selectedFaceId \in FaceIds(bs[i].faces)
              /\ (/\ bs[i].key \in DOMAIN bucketFaceSelections
                  /\ bucketFaceSelections[bs[i].key] \notin FaceIds(bs[i].faces))
                 => bs[i].selectedFaceId = bs[i].faces[1].face_id

\* C2: whenever Collage is shown with a granularity of day, week, month or
\* year, the face list of the request holds exactly one face of every
\* bucket of that granularity and no other face.
C2_OneFacePerBucket ==
    (currentStep = 5 /\ selectedBucketType \in BucketSizes) =>
        LET ids == facesToUse(bucketFaceSelections, selectedFaceIds)
            bs == bucketsWithFaces(faces, selectedBucketType, bucketFaceSelections)
        IN  /\ \A i \in DOMAIN bs :
                 Cardinality({j \in DOMAIN ids : ids[j] \in FaceIds(bs[i].faces)}) = 1
            /\ \A j \in DOMAIN ids : \E i \in DOMAIN bs : ids[j] \in FaceIds(bs[i].faces)


\* C21: whenever Arrange is shown and bucketFaceSelections holds for a
\* bucket's key the id of one of the bucket's faces, the bucket's
\* selectedFaceId is that id; and while the faces do not change, an entry
\* of bucketFaceSelections changes only by a click in Arrange, which changes
\* the entry of one key, so a face clicked for a key stays selected for it.
C21_OverrideKept ==
    /\ [](currentStep = 4 =>
            LET bs == bucketsWithFaces(faces, selectedBucketType, bucketFaceSelections)
            IN  \A i \in DOMAIN bs :
                  (/\ bs[i].key \in DOMAIN bucketFaceSelections
                   /\ bucketFaceSelections[bs[i].key] \in FaceIds(bs[i].faces))
                  => bs[i].selectedFaceId = bucketFaceSelections[bs[i].key])
    /\ [][faces' = faces =>
            LET changed == {k \in DOMAIN bucketFaceSelections :
                                \/ k \notin DOMAIN bucketFaceSelections'
                                \/ bucketFaceSelections'[k] # bucketFaceSelections[k]}
            IN  /\ \A k \in changed : k \in DOMAIN bucketFaceSelections'
                /\ changed # {} => (currentStep = 4 /\ currentStep' = 4)
                /\ Cardinality(changed) <= 1]_vars

\* Arrange shows a bucket whose stored selection is not its best face
C21_Witness ==
    /\ currentStep = 4
    /\ LET bs == bucketsWithFaces(faces, selectedBucketType, bucketFaceSelections)
       IN  \E i \in DOMAIN bs :
             /\ bs[i].key \in DOMAIN bucketFaceSelections
             /\ bucketFaceSelections[bs[i].key] \in FaceIds(bs[i].faces)
             /\ bucketFaceSelections[bs[i].key] # bs[i].faces[1].face_id
             /\ bs[i].selectedFaceId = bucketFaceSelections[bs[i].key]


\* C22: whenever Collage is shown with the granularity "all", the faces
\* counted for the layout and sent as face_ids in the request are exactly
\* the faces selected in Review.
C22_AllUsesReviewSelection ==
    (currentStep = 5 /\ selectedBucketType = "all") =>
        LET ids == facesToUse(bucketFaceSelections, selectedFaceIds)
            request == CollageRequest(bucketFaceSelections, selectedFaceIds, FALSE, FALSE)
        IN  /\ Len(ids) = Cardinality(selectedFaceIds)
            /\ {ids[i] : i \in DOMAIN ids} = selectedFaceIds
            /\ selectedFaceIds # {} => request.face_ids = ids


\* C27: whenever Arrange or Collage is shown, every key of
\* bucketFaceSelections is a bucket key of the selected granularity, every
\* value is an accepted face, and the face_ids of the request hold no face
\* id twice.
C27_SelectionsCurrent ==
    currentStep \in {4, 5} =>
        LET bs == bucketsWithFaces(faces, selectedBucketType, bucketFaceSelections)
            acc == AcceptedFaces(faces)
            ids == facesToUse(bucketFaceSelections, selectedFaceIds)
        IN  /\ \A k \in DOMAIN bucketFaceSelections :
                  /\ \E i \in DOMAIN bs : bs[i].key = k
                  /\ bucketFaceSelections[k] \in FaceIds(acc)
            /\ \A i \in DOMAIN ids : \A j \in DOMAIN ids : i # j => ids[i] # ids[j]


-----------------------------------------------------------------------------
(* The wizard: the steps *)

\* C28: currentStep is always one of 1..5 and every change of currentStep
\* moves to the step before or the step after, whatever the order of the
\* clicks and of the two delayed advances.
C28_AdjacentSteps ==
    /\ [](currentStep \in 1..5)
    /\ [][currentStep' # currentStep =>
            (currentStep' = currentStep + 1 \/ currentStep' = currentStep - 1)]_vars


-----------------------------------------------------------------------------
(* The run store: updateStatus *)

\* C23: updateStatus(status) sets phase to status.phase and progress to
\* { processed, total, message } of the status, and leaves runId,
\* currentStep, buckets, currentBucket, facesByBucket, skipped,
\* selectedFaceIds, selectedBucketType, bucketFaceSelections and toasts
\* unchanged.
C23_UpdateStatusFrame ==
    [][\E status \in StatusResponses :
            /\ phase' = status.phase
            /\ DOMAIN progress' = {"processed", "total", "message"}
            /\ progress'.processed = status.processed
            /\ progress'.total = status.total
            /\ progress'.message = status.message
            /\ UNCHANGED <<runId, currentStep, storeBuckets, currentBucket, facesByBucket,
                           skipped, selectedFaceIds, selectedBucketType,
                           bucketFaceSelections, toasts>>]_vars

\* A status with files processed has been applied to the store of a run
\* that holds buckets, selections and a toast
C23_Witness ==
    /\ phase = "scanning"
    /\ progress.processed = MaxProcessed
    /\ runId
    /\ currentStep = 4
    /\ Len(storeBuckets) > 0
    /\ bucketFaceSelections # NoSelections
    /\ Len(toasts) > 0


-----------------------------------------------------------------------------
(* Scan: the upload and Cancel; the toast queue *)

\* C29: an upload during which the user pressed Cancel starts no run (it
\* does not set runId), and at most one upload ever sets runId.
C29_CancelledUploadStartsNothing ==
    /\ \A i \in DOMAIN uploads : uploads[i].cancelled => uploads[i].status # "started"
    /\ Cardinality({i \in DOMAIN uploads : uploads[i].status = "started"}) <= 1
    /\ (\E i \in DOMAIN uploads : uploads[i].status = "started") <=> runId

\* C30: a change of the toast queue appends at its end or removes its
\* oldest toast; popToast leaves an empty queue as it is; and when from
\* some point on no toast is pushed, the timer, armed while the queue is not
\* empty, pops toast after toast and the queue is eventually empty for good.
C30_ToastsDrain ==
    /\ [][\/ (Len(toasts') > Len(toasts) /\ SubSeq(toasts', 1, Len(toasts)) = toasts)
          \/ (Len(toasts) > 0 /\ toasts' = Tail(toasts))
          \/ toasts' = toasts]_vars
    /\ [](toasts = <<>> => popToast(toasts) = toasts)
    /\ (<>[][Len(toasts') <= Len(toasts)]_vars) => <>[](toasts = <<>>)

\* Two toasts are queued, the older one first
C30_Witness ==
    /\ Len(toasts) = 2
    /\ toasts[1].title = "Upload cancelled"
    /\ toasts[2].title # "Upload cancelled"

=============================================================================
